---- MODULE Spec2Model ----
(***************************************************************************)
(* The serial test-result reader of the ClearCore unit-test scripts:       *)
(* readSerialData of UnitTests/TestScripts/TestScript.py and of its        *)
(* earlier variant UnitTests/TestScripts/ReadSerial.py, and the main of     *)
(* each script that calls it.                                              *)
(*                                                                         *)
(* Bytes are integers 0..255, a read result is a byte string of length 0   *)
(* or 1 (ser.read(1)), decoded text is a sequence of one-character         *)
(* strings.  Time is in seconds; the model keeps the difference            *)
(* time.time() - timeOfLastReading instead of the two absolute times.      *)
(***************************************************************************)
EXTENDS Integers, Sequences, FiniteSets, TLC

VARIABLES
    variant,            \* which script runs: "TestScript" or "ReadSerial"
    pc,                 \* position in readSerialData
    connectionAttempts, \* connectionAttempts
    ser_is_open,        \* ser.is_open
    didError,           \* didError
    testDetailsPrev,    \* testDetailsPrev
    testDetails,        \* testDetails
    testDetailsTxt,     \* testDetailsTxt
    testDetailsText,    \* the local the clearing statement assigns; "unbound" until then
    testRunning,        \* testRunning
    sinceLastReading,   \* time.time() - timeOfLastReading
    c,                  \* c, the result of the last ser.read(1)
    line,               \* line
    count,              \* count
    ret,                \* the value returned, -1 while none
    exc,                \* the exception that left the function, "none" while none
    devLine,            \* device: bytes of the current line not yet sent
    nLines,             \* device: number of lines it has started
    lineBudget,         \* device: number of lines its firmware prints at most
    openCalls,          \* history: number of ser.open() calls made
    sleeps,             \* history: number of time.sleep calls made
    slept,              \* history: total seconds slept
    lastOpen,           \* history: outcome of the last ser.open() call
    everRead,           \* history: ser.read was called
    silentTooLong,      \* history: the last read saw the device silent for longer than the timeout
    timeoutFired,       \* history: the inactivity timeout branch was taken
    errClassified,      \* history: some line took the error/fail branch
    classes,            \* history: the branch taken for each line
    details,            \* history: testDetails after each line
    received,           \* history: the bytes ser.read has delivered, in order
    handed,             \* history: the lines handed to the if/elif chain, in order
    sawEmptyRead,       \* history: a read returned no byte and the loop went on
    ser_baudrate,       \* ser.baudrate
    baudRate,           \* the module-level baudRate
    mpc,                \* position in main, "direct" when readSerialData is called by itself
    cliBaud,            \* the value given with --baud, 0 when the flag is absent
    mainBaudRate,       \* the baudRate that main assigns, 0 until then
    nSketches,          \* len(findTestSketches())
    sketch,             \* index of the sketch the loop of main is at, 0 before the first
    exitCode,           \* the argument of the exit() call that ended main, -1 while none
    mexc,               \* the exception that left main, "none" while none
    lastBuild,          \* history: what the build tool did, until main takes its next step but one
    lastFlash,          \* history: what the flash tool did, until main takes its next step
    steps,              \* history: the steps main has started, in order
    verdicts            \* history: the values readSerialData returned to main, in order

vars == <<variant, pc, connectionAttempts, ser_is_open, didError, testDetailsPrev,
          testDetails, testDetailsTxt, testDetailsText, testRunning, sinceLastReading,
          c, line, count, ret, exc, devLine, nLines, lineBudget, openCalls, sleeps,
          slept, lastOpen, everRead, silentTooLong, timeoutFired, errClassified, classes,
          details, received, handed, sawEmptyRead, ser_baudrate, baudRate, mpc, cliBaud,
          mainBaudRate, nSketches, sketch, exitCode, mexc, lastBuild, lastFlash, steps,
          verdicts>>

\* what readSerialData neither reads nor writes, and the settings it is called with
mainVars == <<ser_baudrate, baudRate, mpc, cliBaud, mainBaudRate, nSketches, sketch,
              exitCode, mexc, lastBuild, lastFlash, steps, verdicts>>

----------------------------------------------------------------------------
(* Bounds of the model *)

\* the device starts at most this many lines when the port opened at once
MaxLines == 4
\* the same, in the runs checked for progress under fairness
MaxLinesFair == 2
\* the device starts at most this many lines when the port opened after retries
MaxLinesAfterRetry == 1
\* the same, for each firmware flashed in the runs of main
MaxLinesMain == 1
\* findTestSketches() finds at most this many sketches
MaxSketches == 2

(* Program constants *)

\* if connectionAttempts > 10
MaxConnectionAttempts == 10
\* time.sleep(1)
SleepSeconds == 1
\* ser.timeout = 1000
SerTimeout == 1000
\* if time.time() - timeOfLastReading > 600
InactivityTimeout == 600
\* return 9
RetPermissionDenied == 9
\* return 8
RetCouldNotOpen == 8
\* return 7
RetDidError == 7
\* return 0
RetOk == 0
\* return 2 (ReadSerial.py)
RetCouldNotOpenReadSerial == 2
\* baudRate = 115200, at module level
DefaultBaudRate == 115200
\* parser.add_argument('--baud', ..., default=115200)
ArgDefaultBaud == 115200
\* exit(0) after the loop of main
ExitOk == 0
\* exit(1) when copyTestSketch returned False
ExitCopyFailed == 1
\* exit(2) when buildProject returned False
ExitBuildReturnedFalse == 2
\* exit(3) when flashClearCore returned False
ExitFlashReturnedFalse == 3
\* exit(98) in the except clause of buildProject
ExitBuildFailed == 98

Variants == {"TestScript", "ReadSerial"}

----------------------------------------------------------------------------
(* Text *)

\* the printable ASCII characters, codes 32..126 in order (the double quote,
\* the backslash and the backtick by name)
Printable ==
    <<" ", "!", "dquote", "#", "$", "%", "&", "'", "(", ")", "*", "+", ",", "-", ".", "/", "0", "1", "2", "3", "4", "5", "6", "7", "8", "9", ":", ";", "<", "=", ">", "?", "@", "A", "B", "C", "D", "E", "F", "G", "H", "I", "J", "K", "L", "M", "N", "O", "P", "Q", "R", "S", "T", "U", "V", "W", "X", "Y", "Z", "[", "backslash", "]", "^", "_", "backtick", "a", "b", "c", "d", "e", "f", "g", "h", "i", "j", "k", "l", "m", "n", "o", "p", "q", "r", "s", "t", "u", "v", "w", "x", "y", "z", "{", "|", "}", "~">>

UpperCase ==
    <<"A", "B", "C", "D", "E", "F", "G", "H", "I", "J", "K", "L", "M", "N", "O", "P", "Q", "R", "S", "T", "U", "V", "W", "X", "Y", "Z">>
LowerCase ==
    <<"a", "b", "c", "d", "e", "f", "g", "h", "i", "j", "k", "l", "m", "n", "o", "p", "q", "r", "s", "t", "u", "v", "w", "x", "y", "z">>
Digits == {"0", "1", "2", "3", "4", "5", "6", "7", "8", "9"}
Letters == {UpperCase[i] : i \in 1..26} \cup {LowerCase[i] : i \in 1..26}
\* [A-Za-z0-9]
Alnum == Letters \cup Digits

\* bytes.decode("utf-8") of a byte string of length 0 or 1: defined exactly when
\* the string is empty or its byte is below 128 (a lead or continuation byte
\* alone is an incomplete sequence)
Decodable(b) == Len(b) = 0 \/ b[1] < 128

\* the character of a 7-bit code; control codes other than newline are kept
\* apart from every printable character
Chr(n) ==
    IF n = 10 THEN "\n"
    ELSE IF n \in 32..126 THEN Printable[n - 31]
    ELSE "ctrl"

\* a variant of Decode in which a read that returned nothing yields a newline
DecodeEmptyAsNewline(b) == IF Len(b) = 0 THEN <<"\n">> ELSE <<Chr(b[1])>>

\* the decoded text of a decodable byte string of length 0 or 1
Decode(b) == IF Len(b) = 0 THEN <<>> ELSE <<Chr(b[1])>>

\* every character a decoded line can hold
Chars == {Chr(n) : n \in 0..127}

\* case folding of (?i), as a table
LowerTable ==
    [ch \in Chars |->
        IF \E i \in 1..26 : UpperCase[i] = ch
        THEN LowerCase[CHOOSE i \in 1..26 : UpperCase[i] = ch]
        ELSE ch]

Lower(ch) == LowerTable[ch]

\* the literal lit occurs in s at index i, ignoring letter case
LitAt(s, i, lit) ==
    /\ i >= 1
    /\ i + Len(lit) - 1 <= Len(s)
    /\ \A k \in 1..Len(lit) : Lower(s[i + k - 1]) = Lower(lit[k])

\* the index after the longest run of characters of class cls that starts at i
RECURSIVE RunEnd(_, _, _)
RunEnd(s, i, cls) ==
    IF i <= Len(s) /\ s[i] \in cls THEN RunEnd(s, i + 1, cls) ELSE i

\* regex.search(s) for a literal pattern with (?i)
Search(lit, s) == \E i \in 1..Len(s) : LitAt(s, i, lit)

\* 'TEST('
LitTestOpen == <<"T", "E", "S", "T", "(">>
\* ', '
LitCommaSpace == <<",", " ">>
\* ') - '
LitCloseDash == <<")", " ", "-", " ">>
\* ' ms'
LitMs == <<" ", "m", "s">>
\* 'error'
LitError == <<"e", "r", "r", "o", "r">>
\* 'fail'
LitFail == <<"f", "a", "i", "l">>
\* 'tests Complete'
LitTestsComplete == <<"t", "e", "s", "t", "s", " ", "C", "o", "m", "p", "l", "e", "t", "e">>
\* 'Tests Finished'
LitTestsFinished == <<"T", "e", "s", "t", "s", " ", "F", "i", "n", "i", "s", "h", "e", "d">>
\* 'Unit tests Complete'
LitUnitTestsComplete == <<"U", "n", "i", "t", " ", "t", "e", "s", "t", "s", " ", "C", "o", "m", "p", "l", "e", "t", "e">>
\* 'Serial Read Timeout'
SentinelText == <<"S", "e", "r", "i", "a", "l", " ", "R", "e", "a", "d", " ", "T", "i", "m", "e", "o", "u", "t">>

----------------------------------------------------------------------------
(* The patterns of readSerialData *)

\* testReg.match(s): '(?i)(TEST)\(([A-Za-z0-9]+), ([A-Za-z0-9]+)' at the start
\* of s.  The value is the index after the match, 0 when there is none.  A
\* run of [A-Za-z0-9]+ is followed by a character outside the class, so the
\* greedy match is the only one.
TestRegEnd(s) ==
    LET a == 1 + Len(LitTestOpen)
        b == RunEnd(s, a, Alnum)
        d == RunEnd(s, b + Len(LitCommaSpace), Alnum)
    IN IF /\ LitAt(s, 1, LitTestOpen)
          /\ b > a
          /\ LitAt(s, b, LitCommaSpace)
          /\ d > b + Len(LitCommaSpace)
       THEN d
       ELSE 0

TestRegMatch(s) == TestRegEnd(s) > 0

\* passTestReg.match(s):
\* '(?i)(TEST)\(([A-Za-z0-9]+), ([A-Za-z0-9]+)(\) - )([0-9]+)( ms)'
PassTestRegMatch(s) ==
    LET d == TestRegEnd(s)
        e == d + Len(LitCloseDash)
        f == RunEnd(s, e, Digits)
    IN /\ d > 0
       /\ LitAt(s, d, LitCloseDash)
       /\ f > e
       /\ LitAt(s, f, LitMs)

\* errorReg.search(s) or failReg.search(s)
ErrorOrFailSearch(s) == Search(LitError, s) \/ Search(LitFail, s)

\* TestScript.py: finishReg.search(s) or finishReg2.search(s);
\* ReadSerial.py: finishReg.search(s) with 'Unit tests Complete'
FinishSearch(v, s) ==
    IF v = "TestScript"
    THEN Search(LitTestsComplete, s) \/ Search(LitTestsFinished, s)
    ELSE Search(LitUnitTestsComplete, s)

\* a variant of Classify that tests error/fail before the test patterns
ClassifyErrorFirst(v, s) ==
    IF ErrorOrFailSearch(s) THEN "ErrorOrFail"
    ELSE IF PassTestRegMatch(s) THEN "TestPass"
    ELSE IF TestRegMatch(s) THEN "TestStart"
    ELSE IF FinishSearch(v, s) THEN "Completion"
    ELSE "Unclassified"

\* a variant of Classify that knows only the first completion phrase
ClassifyOnePhrase(v, s) ==
    IF PassTestRegMatch(s) THEN "TestPass"
    ELSE IF TestRegMatch(s) THEN "TestStart"
    ELSE IF ErrorOrFailSearch(s) THEN "ErrorOrFail"
    ELSE IF Search(LitTestsComplete, s) THEN "Completion"
    ELSE "Unclassified"

\* the branch of the if/elif chain that line s takes
Classify(v, s) ==
    IF PassTestRegMatch(s) THEN "TestPass"
    ELSE IF TestRegMatch(s) THEN "TestStart"
    ELSE IF ErrorOrFailSearch(s) THEN "ErrorOrFail"
    ELSE IF FinishSearch(v, s) THEN "Completion"
    ELSE "Unclassified"

\* a variant of NextDidError that assigns the flag from the current line alone
NextDidErrorAssign(cls, cur) == cls = "ErrorOrFail"

\* didError after the chain
NextDidError(cls, cur) == IF cls = "ErrorOrFail" THEN TRUE ELSE cur

\* a variant of NextTestDetails that leaves the flag alone on an unmatched line
NextTestDetailsNoElse(cls, cur) ==
    IF cls = "TestPass" THEN FALSE
    ELSE IF cls = "TestStart" THEN TRUE
    ELSE cur

\* testDetails after the chain
NextTestDetails(cls, cur) ==
    IF cls = "TestPass" THEN FALSE
    ELSE IF cls \in {"TestStart", "Unclassified"} THEN TRUE
    ELSE cur

\* a variant of NextTestRunning that also stops on an error/fail line
NextTestRunningStopOnError(cls, cur) ==
    IF cls \in {"Completion", "ErrorOrFail"} THEN FALSE ELSE cur

\* testRunning after the chain
NextTestRunning(cls, cur) == IF cls = "Completion" THEN FALSE ELSE cur

\* a variant of TimedOut that never fires
TimeoutLineSentinelOnly(partial) == SentinelText

\* line = line + "Serial Read Timeout"
TimeoutLine(partial) == partial \o SentinelText

TimedOutNever(elapsed) == FALSE

\* time.time() - timeOfLastReading > 600
TimedOut(elapsed) == elapsed > InactivityTimeout

\* a variant of RetriesExhausted that gives up one attempt early
RetriesExhaustedEarly(n) == n >= MaxConnectionAttempts

\* connectionAttempts > 10
RetriesExhausted(n) == n > MaxConnectionAttempts

\* a variant of CaughtAsPermissionError without the PermissionError clause
CaughtAsPermissionErrorNever(v, outcome) == FALSE

\* the except clause that catches a failed ser.open(): TestScript.py has
\* 'except PermissionError' before the bare except, ReadSerial.py only the
\* bare except
CaughtAsPermissionError(v, outcome) ==
    v = "TestScript" /\ outcome = "PermissionError"

\* a variant of Verdict that reports success always
VerdictAlwaysOk(err) == RetOk

\* if didError: return 7 else: return 0
Verdict(err) == IF err THEN RetDidError ELSE RetOk

----------------------------------------------------------------------------
(* The device and the port *)

\* what ser.open() can do
OpenOutcomes == {"ok", "PermissionError", "SerialException"}

\* seconds a read that delivers a byte can block (below ser.timeout)
ByteDelays == {0, 400, 700}

\* the lines the device can send, as UTF-8 bytes without the newline
\* 'TEST(a, fail'
BytesTestStart == <<84, 69, 83, 84, 40, 97, 44, 32, 102, 97, 105, 108>>
\* 'TEST(a, b) - 1 ms'
BytesTestPass == <<84, 69, 83, 84, 40, 97, 44, 32, 98, 41, 32, 45, 32, 49, 32, 109, 115>>
\* 'ok'
BytesDetail == <<111, 107>>
\* 'Fail tests Complete'
BytesFailComplete == <<70, 97, 105, 108, 32, 116, 101, 115, 116, 115, 32, 67, 111, 109, 112, 108, 101, 116, 101>>
\* 'Unit tests Complete'
BytesUnitComplete == <<85, 110, 105, 116, 32, 116, 101, 115, 116, 115, 32, 67, 111, 109, 112, 108, 101, 116, 101>>
\* 'Tests Finished'
BytesFinished == <<84, 101, 115, 116, 115, 32, 70, 105, 110, 105, 115, 104, 101, 100>>
\* the two bytes of U+00E9
BytesEAcute == <<195, 169>>

\* the firmware run under TestScript.py ends with either completion phrase,
\* the one run under ReadSerial.py with 'Unit tests Complete'
DeviceLines(v) ==
    {BytesTestStart, BytesTestPass, BytesDetail, BytesFailComplete,
     BytesUnitComplete, BytesEAcute}
    \cup (IF v = "TestScript" THEN {BytesFinished} ELSE {})

\* the byte that decodes to '\n'
Newline == 10

\* the number of lines the device may start, given connectionAttempts
LineBudget(attempts, budget) == IF attempts = 1 THEN budget ELSE MaxLinesAfterRetry

\* what one ser.read(1) can return: nothing after ser.timeout seconds of
\* silence, the next byte of the line the device is sending, or the first byte
\* of a line it starts now.  The clock is consulted in TestScript.py only.
ReadResults(v, dev, n, budget) ==
    LET delays == IF v = "TestScript" THEN ByteDelays ELSE {0}
        fresh == {l \o <<Newline>> : l \in DeviceLines(v)}
    IN {[bytes |-> <<>>, delay |-> SerTimeout, rest |-> dev, started |-> n]}
       \cup {[bytes |-> <<Head(dev)>>, delay |-> d, rest |-> Tail(dev), started |-> n] :
                d \in IF dev # <<>> THEN delays ELSE {}}
       \cup {[bytes |-> <<Head(x[1])>>, delay |-> x[2], rest |-> Tail(x[1]),
              started |-> n + 1] :
                x \in IF dev = <<>> /\ n < budget THEN fresh \X delays ELSE {}}

----------------------------------------------------------------------------
(* readSerialData *)

InitLocals ==
    /\ pc = "open"
    /\ connectionAttempts = 1
    /\ ser_is_open = FALSE
    /\ didError = FALSE
    /\ testDetailsPrev = FALSE
    /\ testDetails = FALSE
    /\ testDetailsTxt = <<>>
    /\ testDetailsText = "unbound"
    /\ testRunning = TRUE
    /\ sinceLastReading = 0
    /\ c = <<>>
    /\ line = <<>>
    /\ count = 1
    /\ ret = -1
    /\ exc = "none"
    /\ devLine = <<>>
    /\ nLines = 0
    /\ openCalls = 0
    /\ sleeps = 0
    /\ slept = 0
    /\ lastOpen = "none"
    /\ everRead = FALSE
    /\ silentTooLong = FALSE
    /\ timeoutFired = FALSE
    /\ errClassified = FALSE
    /\ classes = <<>>
    /\ details = <<>>
    /\ received = <<>>
    /\ handed = <<>>
    /\ sawEmptyRead = FALSE

\* readSerialData called by itself: the module as imported, the Serial object
\* configured by the statements before the open loop, main not running
InitCalledDirectly ==
    /\ baudRate = DefaultBaudRate
    /\ ser_baudrate = DefaultBaudRate
    /\ mpc = "direct"
    /\ cliBaud = 0
    /\ mainBaudRate = 0
    /\ nSketches = 0
    /\ sketch = 0
    /\ exitCode = -1
    /\ mexc = "none"
    /\ lastBuild = "none"
    /\ lastFlash = "none"
    /\ steps = <<>>
    /\ verdicts = <<>>

\* either script, started on a device that prints up to MaxLines lines
Init ==
    /\ variant \in Variants
    /\ lineBudget = MaxLines
    /\ InitLocals
    /\ InitCalledDirectly

\* TestScript.py, started on a device that prints up to MaxLinesFair lines
InitTestScript ==
    /\ variant = "TestScript"
    /\ lineBudget = MaxLinesFair
    /\ InitLocals
    /\ InitCalledDirectly

\* one pass of 'while not ser.is_open': ser.open() and its except clauses
OpenPort ==
    /\ pc = "open"
    /\ ~ser_is_open
    /\ \E outcome \in OpenOutcomes :
        /\ openCalls' = openCalls + 1
        /\ lastOpen' = outcome
        /\ IF outcome = "ok"
           THEN /\ ser_is_open' = TRUE
                /\ pc' = "read"
                /\ UNCHANGED <<connectionAttempts, ret, exc>>
           ELSE IF CaughtAsPermissionError(variant, outcome)
           THEN /\ ret' = RetPermissionDenied
                /\ pc' = "done"
                /\ UNCHANGED <<connectionAttempts, ser_is_open, exc>>
           ELSE IF variant = "ReadSerial"
           THEN \* 'if connectionAttemps > 10' names an unbound variable
                /\ connectionAttempts' = connectionAttempts + 1
                /\ exc' = "NameError"
                /\ pc' = "raised"
                /\ UNCHANGED <<ser_is_open, ret>>
           ELSE /\ connectionAttempts' = connectionAttempts + 1
                /\ IF RetriesExhausted(connectionAttempts + 1)
                   THEN ret' = RetCouldNotOpen /\ pc' = "done"
                   ELSE ret' = ret /\ pc' = "sleep"
                /\ UNCHANGED <<ser_is_open, exc>>
    /\ UNCHANGED <<variant, didError, testDetailsPrev, testDetails, testDetailsTxt,
                   testDetailsText, testRunning, sinceLastReading, c, line, count,
                   devLine, nLines, lineBudget, sleeps, slept, everRead, silentTooLong,
                   timeoutFired, errClassified, classes, details, received, handed,
                   sawEmptyRead>>
    /\ UNCHANGED mainVars

\* time.sleep(1) at the end of a failed pass
Sleep ==
    /\ pc = "sleep"
    /\ sleeps' = sleeps + 1
    /\ slept' = slept + SleepSeconds
    /\ pc' = "open"
    /\ UNCHANGED <<variant, connectionAttempts, ser_is_open, didError, testDetailsPrev,
                   testDetails, testDetailsTxt, testDetailsText, testRunning,
                   sinceLastReading, c, line, count, ret, exc, devLine, nLines,
                   lineBudget, openCalls, lastOpen, everRead, silentTooLong, timeoutFired,
                   errClassified, classes, details, received, handed, sawEmptyRead>>
    /\ UNCHANGED mainVars

\* one pass of the inner 'while True': read a byte, check the clock, decode
ReadByte ==
    /\ pc = "read"
    /\ \E r \in ReadResults(variant, devLine, nLines, LineBudget(connectionAttempts, lineBudget)) :
        LET timed == variant = "TestScript"
            elapsed == IF timed THEN sinceLastReading + r.delay ELSE sinceLastReading
        IN
        /\ c' = r.bytes
        /\ devLine' = r.rest
        /\ nLines' = r.started
        /\ everRead' = TRUE
        /\ silentTooLong' = (timed /\ r.delay > InactivityTimeout)
        /\ received' = received \o r.bytes
        /\ sawEmptyRead' = (sawEmptyRead \/ (r.bytes = <<>> /\ ~(timed /\ TimedOut(elapsed))))
        /\ IF timed /\ TimedOut(elapsed)
           THEN /\ line' = TimeoutLine(line)
                /\ didError' = TRUE
                /\ testRunning' = FALSE
                /\ timeoutFired' = TRUE
                /\ sinceLastReading' = elapsed
                /\ pc' = "classify"
                /\ exc' = exc
           ELSE IF ~Decodable(r.bytes)
           THEN /\ exc' = "UnicodeDecodeError"
                /\ pc' = "raised"
                /\ sinceLastReading' = elapsed
                /\ UNCHANGED <<line, didError, testRunning, timeoutFired>>
           ELSE IF Decode(r.bytes) = <<"\n">>
           THEN /\ pc' = "classify"
                /\ sinceLastReading' = elapsed
                /\ UNCHANGED <<line, didError, testRunning, timeoutFired, exc>>
           ELSE IF r.bytes = <<>>
           THEN /\ pc' = "read"
                /\ sinceLastReading' = elapsed
                /\ UNCHANGED <<line, didError, testRunning, timeoutFired, exc>>
           ELSE /\ sinceLastReading' = 0
                /\ line' = line \o Decode(r.bytes)
                /\ pc' = "read"
                /\ UNCHANGED <<didError, testRunning, timeoutFired, exc>>
    /\ UNCHANGED <<variant, connectionAttempts, ser_is_open, testDetailsPrev, testDetails,
                   testDetailsTxt, testDetailsText, count, ret, lineBudget, openCalls, sleeps,
                   slept, lastOpen, errClassified, classes, details, handed>>
    /\ UNCHANGED mainVars

\* the if/elif chain and the bookkeeping after it, for the line just read
ClassifyLine ==
    /\ pc = "classify"
    /\ LET cls == Classify(variant, line)
           td == NextTestDetails(cls, testDetails)
           running == NextTestRunning(cls, testRunning)
       IN /\ testDetails' = td
          /\ didError' = NextDidError(cls, didError)
          /\ testRunning' = running
          /\ testDetailsTxt' = IF td THEN testDetailsTxt \o <<"\n">> \o line
                                     ELSE testDetailsTxt
          /\ testDetailsText' = IF testDetailsPrev /\ ~td THEN "" ELSE testDetailsText
          /\ testDetailsPrev' = td
          /\ count' = count + 1
          /\ errClassified' = (errClassified \/ cls = "ErrorOrFail")
          /\ classes' = Append(classes, cls)
          /\ details' = Append(details, td)
          /\ handed' = Append(handed, line)
          /\ pc' = IF running THEN "read" ELSE "close"
          /\ line' = IF running THEN <<>> ELSE line
    /\ UNCHANGED <<variant, connectionAttempts, ser_is_open, sinceLastReading, c, ret,
                   exc, devLine, nLines, lineBudget, openCalls, sleeps, slept, lastOpen,
                   everRead, silentTooLong, timeoutFired, received, sawEmptyRead>>
    /\ UNCHANGED mainVars

\* ser.close() and the return after the loop
CloseAndReturn ==
    /\ pc = "close"
    /\ ser_is_open' = FALSE
    /\ ret' = Verdict(didError)
    /\ pc' = "done"
    /\ UNCHANGED <<variant, connectionAttempts, didError, testDetailsPrev, testDetails,
                   testDetailsTxt, testDetailsText, testRunning, sinceLastReading, c,
                   line, count, exc, devLine, nLines, lineBudget, openCalls, sleeps, slept,
                   lastOpen, everRead, silentTooLong, timeoutFired, errClassified,
                   classes, details, received, handed, sawEmptyRead>>
    /\ UNCHANGED mainVars

Next ==
    \/ OpenPort
    \/ Sleep
    \/ ReadByte
    \/ ClassifyLine
    \/ CloseAndReturn

Spec == Init /\ [][Next]_vars

\* the script runs on: a step that can be taken is taken
FairSpecTestScript == InitTestScript /\ [][Next]_vars /\ WF_vars(Next)

----------------------------------------------------------------------------
(* main *)

\* the values --baud is given in the runs explored, 0 for no flag
BaudFlags == {0, 9600}

\* what an external tool run by execute() can do: exit with 0 or not
ToolOutcomes == {"ok", "nonzero"}

\* the build log the build tool is told to write
OutFileStates == {"readable", "missing"}

\* args.baud: the value of the flag, or the default of the argument
ParseBaud(flag) == IF flag = 0 THEN ArgDefaultBaud ELSE flag

\* the baudRate that 'ser.baudrate = baudRate' reads: readSerialData has no
\* local of that name, so the module-level one; the assignment in main binds
\* a local of main
BaudRateRead(moduleLevel, localOfMain) == moduleLevel

\* execute(): returns for exit code 0, raises Exception otherwise
ExecuteRaises(tool) == tool # "ok"

\* buildProject: "returned" (True), "exit" (exit(98) in the bare except
\* clause, which is the one that catches what execute raises), or the
\* FileNotFoundError of open(atmelOutFile), in the try block or in the clause
BuildProjectResult(tool, outFile) ==
    IF outFile = "missing" THEN "FileNotFoundError"
    ELSE IF ExecuteRaises(tool) THEN "exit"
    ELSE "returned"

\* flashClearCore: the bare except clause catches what execute raises and
\* prints; the function returns True either way
FlashClearCoreReturns(tool) == TRUE

HaltsOnNever(r) == FALSE

\* 'if ret != 0:' after readSerialData in main of TestScript.py
HaltsOn(r) == r # RetOk

\* the scripts started from the command line
InitMain ==
    /\ variant \in Variants
    /\ lineBudget = MaxLinesMain
    /\ pc = "idle"
    /\ connectionAttempts = 1
    /\ ser_is_open = FALSE
    /\ didError = FALSE
    /\ testDetailsPrev = FALSE
    /\ testDetails = FALSE
    /\ testDetailsTxt = <<>>
    /\ testDetailsText = "unbound"
    /\ testRunning = TRUE
    /\ sinceLastReading = 0
    /\ c = <<>>
    /\ line = <<>>
    /\ count = 1
    /\ ret = -1
    /\ exc = "none"
    /\ devLine = <<>>
    /\ nLines = 0
    /\ openCalls = 0
    /\ sleeps = 0
    /\ slept = 0
    /\ lastOpen = "none"
    /\ everRead = FALSE
    /\ silentTooLong = FALSE
    /\ timeoutFired = FALSE
    /\ errClassified = FALSE
    /\ classes = <<>>
    /\ details = <<>>
    /\ received = <<>>
    /\ handed = <<>>
    /\ sawEmptyRead = FALSE
    /\ baudRate = DefaultBaudRate
    /\ ser_baudrate = 0
    /\ mpc = "parse"
    /\ cliBaud \in BaudFlags
    /\ mainBaudRate = 0
    /\ nSketches \in (IF variant = "TestScript" THEN 0..MaxSketches ELSE {0})
    /\ sketch = 0
    /\ exitCode = -1
    /\ mexc = "none"
    /\ lastBuild = "none"
    /\ lastFlash = "none"
    /\ steps = <<>>
    /\ verdicts = <<>>

\* what readSerialData and the device keep, left alone by a step of main
sessionVars == <<pc, connectionAttempts, ser_is_open, didError, testDetailsPrev,
                 testDetails, testDetailsTxt, testDetailsText, testRunning,
                 sinceLastReading, c, line, count, ret, exc, openCalls, sleeps, slept,
                 lastOpen, everRead, silentTooLong, timeoutFired, errClassified, classes,
                 details, received, handed, sawEmptyRead, ser_baudrate>>

\* parse_args() and 'baudRate = args.baud'
ParseArgs ==
    /\ mpc = "parse"
    /\ mainBaudRate' = ParseBaud(cliBaud)
    /\ mpc' = IF variant = "TestScript" THEN "loop" ELSE "call"
    /\ UNCHANGED <<variant, lineBudget, devLine, nLines, baudRate, cliBaud, nSketches,
                   sketch, exitCode, mexc, lastBuild, lastFlash, steps, verdicts>>
    /\ UNCHANGED sessionVars

\* 'for testSketch in findTestSketches():' takes the next sketch, or the
\* loop ends and exit(0) runs
NextSketch ==
    /\ mpc = "loop"
    /\ IF sketch < nSketches
       THEN /\ sketch' = sketch + 1
            /\ mpc' = "copy"
            /\ exitCode' = exitCode
       ELSE /\ exitCode' = ExitOk
            /\ mpc' = "exited"
            /\ sketch' = sketch
    /\ lastBuild' = "none"
    /\ lastFlash' = "none"
    /\ UNCHANGED <<variant, lineBudget, devLine, nLines, baudRate, cliBaud, mainBaudRate,
                   nSketches, mexc, steps, verdicts>>
    /\ UNCHANGED sessionVars

\* 'ret = copyTestSketch(testSketch)' and the exit(1) after it
CopyTestSketch ==
    /\ mpc = "copy"
    /\ steps' = Append(steps, "copy")
    /\ \E copied \in BOOLEAN :
        IF copied
        THEN mpc' = "build" /\ exitCode' = exitCode
        ELSE mpc' = "exited" /\ exitCode' = ExitCopyFailed
    /\ UNCHANGED <<variant, lineBudget, devLine, nLines, baudRate, cliBaud, mainBaudRate,
                   nSketches, sketch, mexc, lastBuild, lastFlash, verdicts>>
    /\ UNCHANGED sessionVars

\* 'ret = buildProject()' and the exit(2) after it
BuildProject ==
    /\ mpc = "build"
    /\ steps' = Append(steps, "build")
    /\ \E tool \in ToolOutcomes, outFile \in OutFileStates :
        LET result == BuildProjectResult(tool, outFile)
        IN /\ lastBuild' = tool
           /\ IF result = "exit"
              THEN mpc' = "exited" /\ exitCode' = ExitBuildFailed /\ mexc' = mexc
              ELSE IF result = "FileNotFoundError"
              THEN mpc' = "raised" /\ exitCode' = exitCode /\ mexc' = result
              ELSE mpc' = "flash" /\ exitCode' = exitCode /\ mexc' = mexc
    /\ UNCHANGED <<variant, lineBudget, devLine, nLines, baudRate, cliBaud, mainBaudRate,
                   nSketches, sketch, lastFlash, verdicts>>
    /\ UNCHANGED sessionVars

\* 'ret = flashClearCore()' and the exit(3) after it; a flash that succeeded
\* restarts the device with the new firmware
FlashClearCore ==
    /\ mpc = "flash"
    /\ steps' = Append(steps, "flash")
    /\ \E tool \in ToolOutcomes :
        /\ lastFlash' = tool
        /\ IF tool = "ok"
           THEN devLine' = <<>> /\ nLines' = 0
           ELSE UNCHANGED <<devLine, nLines>>
        /\ IF FlashClearCoreReturns(tool)
           THEN mpc' = "call" /\ exitCode' = exitCode
           ELSE mpc' = "exited" /\ exitCode' = ExitFlashReturnedFalse
    /\ UNCHANGED <<variant, lineBudget, baudRate, cliBaud, mainBaudRate, nSketches,
                   sketch, mexc, lastBuild, verdicts>>
    /\ UNCHANGED sessionVars

\* 'ret = readSerialData(args.port)' is entered: the statements of
\* readSerialData before its open loop
CallReadSerialData ==
    /\ mpc = "call"
    /\ steps' = Append(steps, "session")
    /\ mpc' = "session"
    /\ ser_baudrate' = BaudRateRead(baudRate, mainBaudRate)
    /\ pc' = "open"
    /\ connectionAttempts' = 1
    /\ ser_is_open' = FALSE
    /\ didError' = FALSE
    /\ testDetailsPrev' = FALSE
    /\ testDetails' = FALSE
    /\ testDetailsTxt' = <<>>
    /\ testDetailsText' = "unbound"
    /\ testRunning' = TRUE
    /\ sinceLastReading' = 0
    /\ c' = <<>>
    /\ line' = <<>>
    /\ count' = 1
    /\ ret' = -1
    /\ exc' = "none"
    /\ openCalls' = 0
    /\ sleeps' = 0
    /\ slept' = 0
    /\ lastOpen' = "none"
    /\ everRead' = FALSE
    /\ silentTooLong' = FALSE
    /\ timeoutFired' = FALSE
    /\ errClassified' = FALSE
    /\ classes' = <<>>
    /\ details' = <<>>
    /\ received' = <<>>
    /\ handed' = <<>>
    /\ sawEmptyRead' = FALSE
    /\ lastBuild' = "none"
    /\ lastFlash' = "none"
    /\ UNCHANGED <<variant, lineBudget, devLine, nLines, baudRate, cliBaud, mainBaudRate,
                   nSketches, sketch, exitCode, mexc, verdicts>>

\* readSerialData has returned or raised: in TestScript.py 'if ret != 0:
\* exit(ret)' and the next pass of the loop, in ReadSerial.py 'exit(ret)'
ReturnFromReadSerialData ==
    /\ mpc = "session"
    /\ pc \in {"done", "raised"}
    /\ IF pc = "raised"
       THEN /\ mexc' = exc
            /\ mpc' = "raised"
            /\ UNCHANGED <<exitCode, verdicts>>
       ELSE /\ verdicts' = Append(verdicts, ret)
            /\ mexc' = mexc
            /\ IF variant = "ReadSerial" \/ HaltsOn(ret)
               THEN mpc' = "exited" /\ exitCode' = ret
               ELSE mpc' = "loop" /\ exitCode' = exitCode
    /\ UNCHANGED <<variant, lineBudget, devLine, nLines, baudRate, cliBaud, mainBaudRate,
                   nSketches, sketch, lastBuild, lastFlash, steps>>
    /\ UNCHANGED sessionVars

NextMain ==
    \/ ParseArgs
    \/ NextSketch
    \/ CopyTestSketch
    \/ BuildProject
    \/ FlashClearCore
    \/ CallReadSerialData
    \/ ReturnFromReadSerialData
    \/ OpenPort
    \/ Sleep
    \/ ReadByte
    \/ ClassifyLine
    \/ CloseAndReturn

SpecMain == InitMain /\ [][NextMain]_vars

----------------------------------------------------------------------------
(* Properties *)

\* the session of TestScript.py ran: the port opened
SessionOfTestScript == variant = "TestScript" /\ lastOpen = "ok"

\* the branch taken for the last classified line
LastClass == classes[Len(classes)]

\* C1: in TestScript.py, when readSerialData returns after a session, it
\* returns 7 exactly when some line took the error/fail branch or the
\* inactivity timeout fired, and 0 otherwise.
C1_VerdictIffErrorOrTimeout ==
    (SessionOfTestScript /\ pc = "done") =>
        /\ (ret = RetDidError) <=> (errClassified \/ timeoutFired)
        /\ (ret = RetOk) <=> ~(errClassified \/ timeoutFired)

\* a session that ends with a completion line after an error/fail line and
\* without a timeout returns 7
C1_Witness ==
    /\ SessionOfTestScript /\ pc = "done" /\ ret = RetDidError
    /\ errClassified /\ ~timeoutFired

\* C2: in TestScript.py, once the port is open, a read during which the device
\* was silent for longer than the inactivity timeout leads to the end of the
\* read loop with didError set and to the return of 7.
C2_SilenceLeadsToFailure ==
    (variant = "TestScript" /\ ser_is_open /\ silentTooLong)
        ~> (pc = "done" /\ ~testRunning /\ didError /\ ret = RetDidError)

\* the device fell silent after at least one complete line and the session
\* returned 7 with no error/fail line seen
C2_Witness ==
    /\ variant = "TestScript" /\ silentTooLong /\ Len(classes) >= 2
    /\ ~errClassified /\ pc = "done" /\ ret = RetDidError

\* C3, as stated: in TestScript.py every line that contains a completion
\* phrase ends the read loop.
C3_EveryPhraseLineTerminates ==
    [][(variant = "TestScript" /\ pc = "classify" /\ FinishSearch("TestScript", line))
        => pc' = "close"]_vars

\* C3, amended: in TestScript.py a line that contains a completion phrase,
\* does not match the test patterns at its start and contains neither
\* "error" nor "fail" ends the read loop, and after the loop has ended no
\* further byte is read.
C3_CompletionLineTerminates ==
    /\ [][(/\ variant = "TestScript" /\ pc = "classify"
           /\ FinishSearch("TestScript", line)
           /\ ~PassTestRegMatch(line) /\ ~TestRegMatch(line)
           /\ ~ErrorOrFailSearch(line))
          => (pc' = "close" /\ ~testRunning')]_vars
    /\ [][(pc = "close" \/ pc = "done")
          => (/\ pc' \in {"close", "done"}
              /\ c' = c /\ devLine' = devLine /\ nLines' = nLines)]_vars

\* the line 'Tests Finished' ended a session of TestScript.py after an earlier line
C3_Witness ==
    /\ variant = "TestScript" /\ pc = "close" /\ ~timeoutFired
    /\ Len(classes) >= 2 /\ LastClass = "Completion"
    /\ LitAt(line, 1, LitTestsFinished)

\* C4, as stated: every line that contains "error" or "fail" takes the
\* error/fail branch.
C4_EveryErrorLineIsErrorOrFail ==
    (pc = "classify" /\ ErrorOrFailSearch(line)) => Classify(variant, line) = "ErrorOrFail"

\* C4, amended: a line that contains "error" or "fail" and does not match the
\* test-pass or test-start pattern at its start takes the error/fail branch
\* and sets didError; a line that matches one of the two patterns is handled
\* by that pattern and leaves didError as it was.
C4_ErrorLineUnlessTestPattern ==
    /\ [][(/\ pc = "classify" /\ ErrorOrFailSearch(line)
           /\ ~PassTestRegMatch(line) /\ ~TestRegMatch(line))
          => (didError' /\ LastClass' = "ErrorOrFail")]_vars
    /\ [][(pc = "classify" /\ (PassTestRegMatch(line) \/ TestRegMatch(line)))
          => (didError' = didError /\ LastClass' \in {"TestPass", "TestStart"})]_vars

\* the line 'Fail tests Complete' was the first line and set didError
C4_Witness ==
    /\ classes = <<"ErrorOrFail">> /\ didError /\ ~timeoutFired /\ pc = "read"

\* C5: a line that takes the error/fail branch sets didError and leaves
\* testRunning and testDetails alone, so the loop reads on; the loop ends only
\* with a completion line or the timeout; and readSerialData then returns 7.
C5_ErrorDoesNotEndSession ==
    /\ [][(pc = "classify" /\ Classify(variant, line) = "ErrorOrFail")
          => (/\ didError'
              /\ testRunning' = testRunning
              /\ testDetails' = testDetails
              /\ testRunning => pc' = "read")]_vars
    /\ [][(pc = "classify" /\ pc' = "close")
          => (timeoutFired \/ LastClass' = "Completion")]_vars
    /\ [](errClassified /\ pc = "done" => ret = RetDidError)

\* after an error/fail line two more lines were read, the last a completion
\* line, and 7 was returned
C5_Witness ==
    /\ Len(classes) = 3 /\ classes[1] = "ErrorOrFail" /\ classes[3] = "Completion"
    /\ ~timeoutFired /\ pc = "done" /\ ret = RetDidError

\* C6: didError starts false and never goes from true to false.
C6_DidErrorMonotonic ==
    /\ ~didError
    /\ [][didError => didError']_vars

\* didError was set by the first line and is still set after a later line
\* that passes a test
C6_Witness ==
    /\ Len(classes) >= 2 /\ classes[1] = "ErrorOrFail" /\ LastClass = "TestPass"
    /\ didError /\ ~timeoutFired

\* C7: testDetails starts false; after a line it is true for TestStart and
\* Unclassified, false for TestPass and unchanged for ErrorOrFail and
\* Completion; the lines [TestStart, Unclassified, TestPass, Completion] give
\* [true, true, false, false] and, with no timeout, the return value 0.
C7_TestDetailsPerLine ==
    /\ ~testDetails
    /\ [][(pc = "classify")
          => LET cls == LastClass'
             IN /\ cls \in {"TestStart", "Unclassified"} => testDetails'
                /\ cls = "TestPass" => ~testDetails'
                /\ cls \in {"ErrorOrFail", "Completion"} => testDetails' = testDetails
                /\ details'[Len(details')] = testDetails']_vars
    /\ [](classes = <<"TestStart", "Unclassified", "TestPass", "Completion">>
          => /\ details = <<TRUE, TRUE, FALSE, FALSE>>
             /\ (pc = "done" /\ ~timeoutFired) => ret = RetOk)

\* the four lines of the example were read and 0 was returned
C7_Witness ==
    /\ classes = <<"TestStart", "Unclassified", "TestPass", "Completion">>
    /\ ~timeoutFired /\ pc = "done" /\ ret = RetOk

\* C8: in TestScript.py, ten failed open attempts with nine sleeps of one
\* second between them end in the return of 8 with nothing read; an attempt is
\* preceded by as many sleeps as failed attempts; after a successful attempt
\* no further attempt is made and the session starts.
C8_TenAttemptsThenEight ==
    /\ []((variant = "TestScript" /\ pc = "done" /\ ret = RetCouldNotOpen)
          => (/\ openCalls = MaxConnectionAttempts
              /\ sleeps = MaxConnectionAttempts - 1
              /\ slept = (MaxConnectionAttempts - 1) * SleepSeconds
              /\ ~everRead /\ ~ser_is_open))
    /\ []((/\ variant = "TestScript" /\ openCalls = MaxConnectionAttempts
           /\ lastOpen = "SerialException")
          => (pc = "done" /\ ret = RetCouldNotOpen))
    /\ []((variant = "TestScript" /\ pc = "open")
          => (sleeps = openCalls /\ openCalls < MaxConnectionAttempts))
    /\ []((variant = "TestScript" /\ lastOpen = "ok")
          => (pc \notin {"open", "sleep"} /\ ret \notin {RetCouldNotOpen, RetPermissionDenied}))
    /\ [][ser_is_open => openCalls' = openCalls]_vars

\* ten attempts failed and 8 was returned
C8_Witness ==
    /\ variant = "TestScript" /\ pc = "done" /\ ret = RetCouldNotOpen
    /\ openCalls = MaxConnectionAttempts

\* C9: in TestScript.py, an open attempt that fails with PermissionError ends
\* readSerialData at once with 9: no attempt, sleep or read follows it.
C9_PermissionDeniedReturnsNine ==
    (variant = "TestScript" /\ lastOpen = "PermissionError")
        => (/\ pc = "done" /\ ret = RetPermissionDenied
            /\ sleeps = openCalls - 1
            /\ connectionAttempts = openCalls
            /\ ~everRead /\ ~ser_is_open)

\* the third attempt, after two transient failures, was denied
C9_Witness ==
    /\ variant = "TestScript" /\ lastOpen = "PermissionError" /\ openCalls = 3
    /\ ret = RetPermissionDenied

\* C10, as stated: readSerialData is never left with the port open.
C10_ClosedOnEveryExit ==
    (pc \in {"done", "raised"}) => ~ser_is_open

\* the step main started last
LastStep == steps[Len(steps)]

\* C11: in main of TestScript.py, once the flash tool has failed for the
\* current sketch the run has halted with exit code 3, the flash being the
\* last step started: no session for that sketch, no later sketch.
C11_FlashFailureExitsThree ==
    (variant = "TestScript" /\ lastFlash = "nonzero") =>
        /\ mpc = "exited"
        /\ exitCode = ExitFlashReturnedFalse
        /\ LastStep = "flash"

\* C12: in main of TestScript.py, once the build tool has failed for the
\* current sketch the run has halted with exit code 2, the build being the
\* last step started: no flash, no session, no later sketch.
C12_BuildFailureExitsTwo ==
    (variant = "TestScript" /\ lastBuild = "nonzero") =>
        /\ mpc = "exited"
        /\ exitCode = ExitBuildReturnedFalse
        /\ LastStep = "build"

\* the order of the steps for one sketch
StepOrder == <<"copy", "build", "flash", "session">>

\* C13: in main of TestScript.py the steps started are copy, build, flash,
\* session, repeated sketch by sketch; a session that returned a non-zero
\* value is the last one, the process has exited with that value and no step
\* was started after that session; the process has exited with 0 only when
\* every sketch found had a session that returned 0.
C13_OneAtATimeHaltOnVerdict ==
    variant = "TestScript" =>
        /\ \A i \in 1..Len(steps) : steps[i] = StepOrder[((i - 1) % 4) + 1]
        /\ Len(steps) <= 4 * sketch
        /\ sketch > 0 => Len(steps) >= 4 * (sketch - 1)
        /\ \A i \in 1..Len(verdicts) :
              verdicts[i] # 0 =>
                  /\ verdicts[i] \in {RetDidError, RetCouldNotOpen, RetPermissionDenied}
                  /\ i = Len(verdicts)
                  /\ mpc = "exited"
                  /\ exitCode = verdicts[i]
                  /\ Len(steps) = 4 * i
        /\ (mpc = "exited" /\ exitCode = 0) =>
              /\ Len(verdicts) = nSketches
              /\ \A i \in 1..Len(verdicts) : verdicts[i] = 0

\* a run of two sketches halted by the verdict of the first session
C13_Witness ==
    /\ variant = "TestScript"
    /\ nSketches = 2
    /\ mpc = "exited"
    /\ Len(verdicts) = 1
    /\ verdicts[1] = RetDidError
    /\ exitCode = RetDidError

\* C14: in a run of either script, the connection that readSerialData has
\* opened has the baud rate given with --baud, or 115200 without the flag.
C14_BaudRateIsTheFlag ==
    (mpc \in {"session", "exited", "raised"} /\ lastOpen = "ok") =>
        ser_baudrate = ParseBaud(cliBaud)

\* C15: in ReadSerial.py, after a failed ser.open() the function either goes
\* on to another attempt or, the failure being the tenth, has returned 2; no
\* exception leaves it.
C15_ReadSerialRetriesThenTwo ==
    (variant = "ReadSerial" /\ lastOpen \notin {"none", "ok"}) =>
        /\ exc = "none"
        /\ \/ pc \in {"sleep", "open"}
           \/ pc = "done" /\ ret = RetCouldNotOpenReadSerial
                          /\ openCalls = MaxConnectionAttempts

\* the pieces of a byte string between its newline bytes, in order; the last
\* piece is what follows the last newline
RECURSIVE SplitAtNewlines(_)
SplitAtNewlines(bs) ==
    IF bs = <<>> THEN << <<>> >>
    ELSE LET before == SplitAtNewlines(SubSeq(bs, 1, Len(bs) - 1))
             b == bs[Len(bs)]
         IN IF b = Newline THEN Append(before, <<>>)
            ELSE [before EXCEPT ![Len(before)] = Append(@, b)]

\* the characters of a string of ASCII bytes
TextOf(bs) == [i \in 1..Len(bs) |-> Chr(bs[i])]

\* the texts of the pieces of the bytes received so far
ReceivedPieces ==
    LET pieces == SplitAtNewlines(received)
    IN [i \in 1..Len(pieces) |-> TextOf(pieces[i])]

\* C16: in either script, while only ASCII bytes were received and no timeout
\* fired, the lines handed to classification are the pieces of the received
\* bytes that a newline has ended, in order and without the newline, and the
\* line being assembled is the piece after the last newline: no byte is
\* lost, and a read that returned nothing ends no line and adds none.
C16_LinesAreTheStreamSplit ==
    (~timeoutFired /\ exc = "none" /\ \A i \in 1..Len(received) : received[i] < 128) =>
        LET pieces == ReceivedPieces
            ended == SubSeq(pieces, 1, Len(pieces) - 1)
        IN /\ pc = "read" => (handed = ended /\ line = pieces[Len(pieces)])
           /\ pc = "classify" => (Append(handed, line) = ended /\ pieces[Len(pieces)] = <<>>)
           /\ pc \in {"close", "done"} => (handed = ended /\ pieces[Len(pieces)] = <<>>)

\* ReadSerial.py returned after two lines, a read having returned nothing
C16_Witness ==
    /\ variant = "ReadSerial"
    /\ sawEmptyRead
    /\ ~timeoutFired
    /\ pc = "done"
    /\ Len(handed) = 2
    /\ handed[1] # <<>>

\* C17: in TestScript.py the timeout fires only when the read that preceded
\* it found the device silent for longer than the timeout, no byte of any
\* kind having arrived in that time.
C17_TimeoutOnlyAfterSilence ==
    (variant = "TestScript" /\ timeoutFired) => silentTooLong

\* C18, as claimed: in TestScript.py the line handed to classification when
\* the timeout fired is the sentinel itself.
C18_TimeoutLineIsTheSentinel ==
    (variant = "TestScript" /\ timeoutFired) =>
        /\ pc = "classify" => line = SentinelText
        /\ pc \in {"close", "done"} => handed[Len(handed)] = SentinelText

\* the bytes received before the read at which the timeout fired (the byte
\* that read returned, if any, is the last one received)
ReceivedBeforeTimeout ==
    IF c = <<>> THEN received ELSE SubSeq(received, 1, Len(received) - 1)

\* the characters of the unfinished line at the timeout
UnfinishedAtTimeout ==
    LET pieces == SplitAtNewlines(ReceivedBeforeTimeout)
    IN TextOf(pieces[Len(pieces)])

\* C18, amended: in TestScript.py the line handed to classification when the
\* timeout fired is the characters of the unfinished line followed by the
\* sentinel, and it is the last line: the session reads no more.
C18_TimeoutLineEndsWithSentinel ==
    (variant = "TestScript" /\ timeoutFired) =>
        /\ pc \in {"classify", "close", "done"}
        /\ pc = "classify" =>
              /\ line = UnfinishedAtTimeout \o SentinelText
              /\ Len(handed) = Len(SplitAtNewlines(ReceivedBeforeTimeout)) - 1
        /\ pc \in {"close", "done"} =>
              /\ handed[Len(handed)] = UnfinishedAtTimeout \o SentinelText
              /\ Len(handed) = Len(SplitAtNewlines(ReceivedBeforeTimeout))

\* the timeout fired in the middle of the second line
C18_Witness ==
    /\ variant = "TestScript"
    /\ timeoutFired
    /\ pc = "done"
    /\ Len(handed) = 2
    /\ UnfinishedAtTimeout # <<>>
    /\ handed[2] # SentinelText

\* the number of continuation bytes that follow lead byte b in UTF-8, -1 when
\* b cannot start a character (ranges of the lead byte only)
Utf8Following(b) ==
    IF b < 128 THEN 0
    ELSE IF b \in 194..223 THEN 1
    ELSE IF b \in 224..239 THEN 2
    ELSE IF b \in 240..244 THEN 3
    ELSE -1

\* bs from position i on is valid UTF-8, need continuation bytes being due
RECURSIVE Utf8Valid(_, _, _)
Utf8Valid(bs, i, need) ==
    IF i > Len(bs) THEN need = 0
    ELSE IF need > 0 THEN bs[i] \in 128..191 /\ Utf8Valid(bs, i + 1, need - 1)
    ELSE Utf8Following(bs[i]) >= 0 /\ Utf8Valid(bs, i + 1, Utf8Following(bs[i]))

\* C19: a decode error leaves readSerialData only when the bytes received,
\* together with the rest of the line the device is sending, are not valid
\* UTF-8.
C19_DecodeErrorOnlyOnInvalidUtf8 ==
    exc = "UnicodeDecodeError" => ~Utf8Valid(received \o devLine, 1, 0)

\* C20: after a line whose classification left testDetails false, the detail
\* buffer is empty: it grew only while testDetails was true and was cleared
\* when testDetails went from true to false, so a TestPass line that closes a
\* report leaves no line of that report in the buffer.
C20_DetailBufferClearedWhenReportCloses ==
    (Len(details) > 0 /\ ~details[Len(details)]) => testDetailsTxt = <<>>

====
